---- MODULE Spec2Model ----
(***************************************************************************)
(* Model of the OvenMediaEngine admission webhook of OvenCtrl              *)
(* (src/src/main.rs): the route POST /oven/admission, its Json extractor,  *)
(* the handler admission and the decision handle_opening_admission.        *)
(***************************************************************************)
EXTENDS Integers, Sequences, FiniteSets, TLC

VARIABLES config, pc, payload, resp

vars == <<config, pc, payload, resp>>

(***************************************************************************)
(* Bounds of the model.                                                    *)
(***************************************************************************)
\* longest URL path, in segments
MaxSegments == 2
\* longest query string, in name=value pairs
MaxPairs == 2
\* number of admission calls in flight at once in SpecConc
MaxClients == 2

(***************************************************************************)
(* Option<T> and Result<T, E> of the source.                               *)
(***************************************************************************)
None == <<>>
Some(x) == <<x>>
Ok(v) == [ok |-> TRUE, val |-> v]
Err(e) == [ok |-> FALSE, err |-> e]

\* HashMap::get
Get(map, k) == IF k \in DOMAIN map THEN Some(map[k]) ELSE None

(***************************************************************************)
(* Vocabulary of the inputs.                                               *)
(***************************************************************************)
Names == {"alice", "bob"}
Keys == {"k1", "k2"}
Rooms == {"roomA", "roomB"}
FirstSegments == {"app", "roomA"}

\* the partial functions from a subset of D to R: the tables a HashMap can hold
Maps(D, R) == UNION {[S -> R] : S \in SUBSET D}

\* OvenCtrlConfig: the two tables the admission decision reads
OvenCtrlConfig ==
    [streamers : Maps(Names, Keys), allowed_streams : Maps(Names, SUBSET Rooms)]

(***************************************************************************)
(* URLs. A raw URL is the text of the JSON field, kept as its components:  *)
(* scheme ("" when the text has none), path segments (<<>> is the empty    *)
(* path, <<"">> is "/"), and the query (None when there is no "?").  The   *)
(* query is the sequence of its raw, still percent-encoded, name=value     *)
(* pairs.                                                                  *)
(***************************************************************************)
SeqsUpTo(S, n) == UNION {[1..k -> S] : k \in 0..n}

Paths ==
    {p \in SeqsUpTo(FirstSegments \cup Rooms, MaxSegments) :
        \A k \in 1..Len(p) : IF k = 1 THEN p[k] \in FirstSegments ELSE p[k] \in Rooms}

RawPairs == {<<"name", "alice">>, <<"name", "bob">>, <<"key", "k1">>, <<"key", "k%32">>}

Queries == {None} \cup {Some(q) : q \in SeqsUpTo(RawPairs, MaxPairs)}

Urls == [scheme : {"rtmp"}, segments : Paths, query : Queries]

BadUrl == [scheme |-> "", segments |-> <<"app", "roomA">>, query |-> None]

\* Url::parse as serde runs it on the field: a text without a scheme is a
\* relative URL without a base, which does not parse
UrlParse(raw) ==
    IF raw.scheme = "" THEN Err(<<"relative URL without a base">>)
    ELSE Ok([segments |-> raw.segments, query |-> raw.query])

\* Url::query
UrlQuery(url) == url.query

\* Url::path_segments: None unless the path starts with "/"
path_segments(url) == IF url.segments = <<>> THEN None ELSE Some(url.segments)

\* Iterator::nth, zero-based
Nth(s, n) == IF n + 1 <= Len(s) THEN Some(s[n + 1]) ELSE None

\* percent-decoding of one query token
PercentDecode(tok) == IF tok = "k%32" THEN "k2" ELSE tok

(***************************************************************************)
(* serde_urlencoded::from_str::<IngestQuery>: the derived visitor walks    *)
(* the pairs in order; a repeated field is an error, an unknown field is   *)
(* skipped, and both fields must have been seen at the end.                *)
(***************************************************************************)
RECURSIVE visit_map(_, _, _)
visit_map(pairs, name, key) ==
    IF pairs = <<>>
    THEN IF name = None THEN Err(<<"missing field 'name'">>)
         ELSE IF key = None THEN Err(<<"missing field 'key'">>)
         ELSE Ok([name |-> name[1], key |-> key[1]])
    ELSE LET k == PercentDecode(Head(pairs)[1])
             v == PercentDecode(Head(pairs)[2])
         IN  IF k = "name"
             THEN IF name # None THEN Err(<<"duplicate field 'name'">>)
                  ELSE visit_map(Tail(pairs), Some(v), key)
             ELSE IF k = "key"
             THEN IF key # None THEN Err(<<"duplicate field 'key'">>)
                  ELSE visit_map(Tail(pairs), name, Some(v))
             ELSE visit_map(Tail(pairs), name, key)

IngestQuery(query) == visit_map(query, None, None)

(***************************************************************************)
(* The JSON payload and its deserialization into OvenAdmission.  Json<T>   *)
(* is an extractor: the handler runs only on a payload that deserializes.  *)
(***************************************************************************)
\* OvenClient: three required fields, port a u16
OvenClient(raw) ==
    IF raw = None THEN Err(<<"missing field 'client'">>)
    ELSE IF raw[1].port \notin 0..65535 THEN Err(<<"invalid value: port">>)
    ELSE Ok(raw[1])

\* OvenDirection, rename_all = "lowercase"
OvenDirection(raw) ==
    IF raw = "incoming" THEN Ok("Incoming")
    ELSE IF raw = "outgoing" THEN Ok("Outgoing")
    ELSE Err(<<"unknown variant ", raw>>)

\* OvenProtocol, variant names as written
OvenProtocol(raw) ==
    IF raw \in {"WebRTC", "RTMP", "SRT", "LLHLS", "Thumbnail"} THEN Ok(raw)
    ELSE Err(<<"unknown variant ", raw>>)

\* OvenStatus, rename_all = "lowercase"
OvenStatus(raw) ==
    IF raw = "closing" THEN Ok("Closing")
    ELSE IF raw = "opening" THEN Ok("Opening")
    ELSE Err(<<"unknown variant ", raw>>)

\* time::serde::iso8601::deserialize
Iso8601 == {"2023-05-01T12:00:00Z"}
OffsetDateTime(raw) == IF raw \in Iso8601 THEN Ok(raw) ELSE Err(<<"invalid time">>)

\* Option<Url>
OptionUrl(raw) ==
    IF raw = None THEN Ok(None)
    ELSE IF UrlParse(raw[1]).ok THEN Ok(Some(UrlParse(raw[1]).val))
    ELSE UrlParse(raw[1])

\* OvenRequest: every field but new_url is required and must have its shape
OvenRequest(raw) ==
    LET direction == OvenDirection(raw.direction)
        protocol == OvenProtocol(raw.protocol)
        status == OvenStatus(raw.status)
        url == UrlParse(raw.url)
        new_url == OptionUrl(raw.new_url)
        time == OffsetDateTime(raw.time)
    IN  IF ~direction.ok THEN direction
        ELSE IF ~protocol.ok THEN protocol
        ELSE IF ~status.ok THEN status
        ELSE IF ~url.ok THEN url
        ELSE IF ~new_url.ok THEN new_url
        ELSE IF ~time.ok THEN time
        ELSE Ok([direction |-> direction.val, protocol |-> protocol.val,
                 status |-> status.val, url |-> url.val,
                 new_url |-> new_url.val, time |-> time.val])

\* OvenAdmission
OvenAdmission(raw) ==
    LET client == OvenClient(raw.client)
        request == OvenRequest(raw.request)
    IN  IF ~client.ok THEN client
        ELSE IF ~request.ok THEN request
        ELSE Ok([client |-> client.val, request |-> request.val])

(***************************************************************************)
(* Responses.                                                              *)
(***************************************************************************)
OvenClosingResponse == [shape |-> "closing"]

OvenOpeningResponse(allowed, new_url, lifetime, reason) ==
    [shape |-> "opening", allowed |-> allowed, new_url |-> new_url,
     lifetime |-> lifetime, reason |-> reason]

\* what axum answers when the Json extractor fails: an HTTP 4xx with a text
\* body, and the handler is not called
JsonRejection == [shape |-> "rejection"]

(***************************************************************************)
(* Faulty variants of handle_opening_admission, each one slip away from    *)
(* the source; the properties below must tell them from it.                *)
(***************************************************************************)
\* the presented key is not compared with the secret
handle_opening_admission_no_key_check(state, adm) ==
    LET url == adm.request.url IN
    IF adm.request.direction = "Incoming"
    THEN
      LET q == UrlQuery(url) IN
      IF q = None THEN Err(<<"no query parameters present">>)
      ELSE
      LET query == IngestQuery(q[1]) IN
      IF ~query.ok THEN query
      ELSE
      LET expected_key == Get(state.streamers, query.val.name) IN
      IF expected_key = None THEN Err(<<"unknown streamer: ", query.val.name>>)
      ELSE
      LET segments == path_segments(url) IN
      IF segments = None THEN Err(<<"url has no segments">>)
      ELSE
      LET room == Nth(segments[1], 1) IN
      IF room = None THEN Err(<<"url is laking a second segment">>)
      ELSE
      LET allowed_streams == Get(state.allowed_streams, query.val.name) IN
      IF allowed_streams = None
      THEN Err(<<"streamer '", query.val.name, "' does not have access to any rooms">>)
      ELSE IF room[1] \notin allowed_streams[1]
      THEN Err(<<"streamer ", query.val.name, " does not have access to room ", room[1]>>)
      ELSE Ok(OvenOpeningResponse(TRUE, None, None, None))
    ELSE Ok(OvenOpeningResponse(TRUE, None, None, None))

\* the direction is not matched: outgoing requests are checked too
handle_opening_admission_checks_outgoing(state, adm) ==
    LET url == adm.request.url IN
    IF adm.request.direction \in {"Incoming", "Outgoing"}
    THEN
      LET q == UrlQuery(url) IN
      IF q = None THEN Err(<<"no query parameters present">>)
      ELSE
      LET query == IngestQuery(q[1]) IN
      IF ~query.ok THEN query
      ELSE
      LET expected_key == Get(state.streamers, query.val.name) IN
      IF expected_key = None THEN Err(<<"unknown streamer: ", query.val.name>>)
      ELSE IF expected_key[1] # query.val.key
      THEN Err(<<"invalid key for streamer ", query.val.name>>)
      ELSE
      LET segments == path_segments(url) IN
      IF segments = None THEN Err(<<"url has no segments">>)
      ELSE
      LET room == Nth(segments[1], 1) IN
      IF room = None THEN Err(<<"url is laking a second segment">>)
      ELSE
      LET allowed_streams == Get(state.allowed_streams, query.val.name) IN
      IF allowed_streams = None
      THEN Err(<<"streamer '", query.val.name, "' does not have access to any rooms">>)
      ELSE IF room[1] \notin allowed_streams[1]
      THEN Err(<<"streamer ", query.val.name, " does not have access to room ", room[1]>>)
      ELSE Ok(OvenOpeningResponse(TRUE, None, None, None))
    ELSE Ok(OvenOpeningResponse(TRUE, None, None, None))

\* the room is looked up in the grants of every streamer
handle_opening_admission_any_grant(state, adm) ==
    LET url == adm.request.url IN
    IF adm.request.direction = "Incoming"
    THEN
      LET q == UrlQuery(url) IN
      IF q = None THEN Err(<<"no query parameters present">>)
      ELSE
      LET query == IngestQuery(q[1]) IN
      IF ~query.ok THEN query
      ELSE
      LET expected_key == Get(state.streamers, query.val.name) IN
      IF expected_key = None THEN Err(<<"unknown streamer: ", query.val.name>>)
      ELSE IF expected_key[1] # query.val.key
      THEN Err(<<"invalid key for streamer ", query.val.name>>)
      ELSE
      LET segments == path_segments(url) IN
      IF segments = None THEN Err(<<"url has no segments">>)
      ELSE
      LET room == Nth(segments[1], 1) IN
      IF room = None THEN Err(<<"url is laking a second segment">>)
      ELSE
      LET allowed_streams == Get(state.allowed_streams, query.val.name) IN
      IF allowed_streams = None
      THEN Err(<<"streamer '", query.val.name, "' does not have access to any rooms">>)
      ELSE IF room[1] \notin UNION {state.allowed_streams[n] : n \in DOMAIN state.allowed_streams}
      THEN Err(<<"streamer ", query.val.name, " does not have access to room ", room[1]>>)
      ELSE Ok(OvenOpeningResponse(TRUE, None, None, None))
    ELSE Ok(OvenOpeningResponse(TRUE, None, None, None))

\* an unknown streamer skips the key check instead of failing
handle_opening_admission_unknown_passes(state, adm) ==
    LET url == adm.request.url IN
    IF adm.request.direction = "Incoming"
    THEN
      LET q == UrlQuery(url) IN
      IF q = None THEN Err(<<"no query parameters present">>)
      ELSE
      LET query == IngestQuery(q[1]) IN
      IF ~query.ok THEN query
      ELSE
      LET expected_key == Get(state.streamers, query.val.name) IN
      IF expected_key # None /\ expected_key[1] # query.val.key
      THEN Err(<<"invalid key for streamer ", query.val.name>>)
      ELSE
      LET segments == path_segments(url) IN
      IF segments = None THEN Err(<<"url has no segments">>)
      ELSE
      LET room == Nth(segments[1], 1) IN
      IF room = None THEN Err(<<"url is laking a second segment">>)
      ELSE
      LET allowed_streams == Get(state.allowed_streams, query.val.name) IN
      IF allowed_streams = None
      THEN Err(<<"streamer '", query.val.name, "' does not have access to any rooms">>)
      ELSE IF room[1] \notin allowed_streams[1]
      THEN Err(<<"streamer ", query.val.name, " does not have access to room ", room[1]>>)
      ELSE Ok(OvenOpeningResponse(TRUE, None, None, None))
    ELSE Ok(OvenOpeningResponse(TRUE, None, None, None))

\* an empty grant set is reported like a missing one
handle_opening_admission_empty_as_absent(state, adm) ==
    LET url == adm.request.url IN
    IF adm.request.direction = "Incoming"
    THEN
      LET q == UrlQuery(url) IN
      IF q = None THEN Err(<<"no query parameters present">>)
      ELSE
      LET query == IngestQuery(q[1]) IN
      IF ~query.ok THEN query
      ELSE
      LET expected_key == Get(state.streamers, query.val.name) IN
      IF expected_key = None THEN Err(<<"unknown streamer: ", query.val.name>>)
      ELSE IF expected_key[1] # query.val.key
      THEN Err(<<"invalid key for streamer ", query.val.name>>)
      ELSE
      LET segments == path_segments(url) IN
      IF segments = None THEN Err(<<"url has no segments">>)
      ELSE
      LET room == Nth(segments[1], 1) IN
      IF room = None THEN Err(<<"url is laking a second segment">>)
      ELSE
      LET allowed_streams == Get(state.allowed_streams, query.val.name) IN
      IF allowed_streams = None \/ allowed_streams[1] = {}
      THEN Err(<<"streamer '", query.val.name, "' does not have access to any rooms">>)
      ELSE IF room[1] \notin allowed_streams[1]
      THEN Err(<<"streamer ", query.val.name, " does not have access to room ", room[1]>>)
      ELSE Ok(OvenOpeningResponse(TRUE, None, None, None))
    ELSE Ok(OvenOpeningResponse(TRUE, None, None, None))

\* the room is taken from the path before the streamer is authenticated
handle_opening_admission_room_first(state, adm) ==
    LET url == adm.request.url IN
    IF adm.request.direction = "Incoming"
    THEN
      LET q == UrlQuery(url) IN
      IF q = None THEN Err(<<"no query parameters present">>)
      ELSE
      LET query == IngestQuery(q[1]) IN
      IF ~query.ok THEN query
      ELSE
      LET segments == path_segments(url) IN
      IF segments = None THEN Err(<<"url has no segments">>)
      ELSE
      LET room == Nth(segments[1], 1) IN
      IF room = None THEN Err(<<"url is laking a second segment">>)
      ELSE
      LET expected_key == Get(state.streamers, query.val.name) IN
      IF expected_key = None THEN Err(<<"unknown streamer: ", query.val.name>>)
      ELSE IF expected_key[1] # query.val.key
      THEN Err(<<"invalid key for streamer ", query.val.name>>)
      ELSE
      LET allowed_streams == Get(state.allowed_streams, query.val.name) IN
      IF allowed_streams = None
      THEN Err(<<"streamer '", query.val.name, "' does not have access to any rooms">>)
      ELSE IF room[1] \notin allowed_streams[1]
      THEN Err(<<"streamer ", query.val.name, " does not have access to room ", room[1]>>)
      ELSE Ok(OvenOpeningResponse(TRUE, None, None, None))
    ELSE Ok(OvenOpeningResponse(TRUE, None, None, None))

(***************************************************************************)
(* handle_opening_admission.  An error message is the sequence of the      *)
(* pieces its format string joins; the Debug text of the URL is left out.  *)
(***************************************************************************)
handle_opening_admission(state, adm) ==
    LET url == adm.request.url IN
    IF adm.request.direction = "Incoming"
    THEN
      LET q == UrlQuery(url) IN
      IF q = None THEN Err(<<"no query parameters present">>)
      ELSE
      LET query == IngestQuery(q[1]) IN
      IF ~query.ok THEN query
      ELSE
      LET expected_key == Get(state.streamers, query.val.name) IN
      IF expected_key = None THEN Err(<<"unknown streamer: ", query.val.name>>)
      ELSE IF expected_key[1] # query.val.key
      THEN Err(<<"invalid key for streamer ", query.val.name>>)
      ELSE
      LET segments == path_segments(url) IN
      IF segments = None THEN Err(<<"url has no segments">>)
      ELSE
      LET room == Nth(segments[1], 1) IN
      IF room = None THEN Err(<<"url is laking a second segment">>)
      ELSE
      LET allowed_streams == Get(state.allowed_streams, query.val.name) IN
      IF allowed_streams = None
      THEN Err(<<"streamer '", query.val.name, "' does not have access to any rooms">>)
      ELSE IF room[1] \notin allowed_streams[1]
      THEN Err(<<"streamer ", query.val.name, " does not have access to room ", room[1]>>)
      ELSE Ok(OvenOpeningResponse(TRUE, None, None, None))
    ELSE Ok(OvenOpeningResponse(TRUE, None, None, None))

\* faulty: the status is not matched, a closing request is decided like an opening one
admission_no_closing_branch(state, adm) ==
    LET r == handle_opening_admission(state, adm)
    IN  IF ~r.ok THEN OvenOpeningResponse(FALSE, None, None, Some(r.err))
        ELSE r.val

\* faulty: the error is dropped instead of becoming the reason
admission_drops_reason(state, adm) ==
    IF adm.request.status = "Closing" THEN OvenClosingResponse
    ELSE LET r == handle_opening_admission(state, adm)
         IN  IF ~r.ok THEN OvenOpeningResponse(FALSE, None, None, None)
             ELSE r.val

\* the body of the handler admission, run on a deserialized payload
admission(state, adm) ==
    IF adm.request.status = "Closing" THEN OvenClosingResponse
    ELSE LET r == handle_opening_admission(state, adm)
         IN  IF ~r.ok THEN OvenOpeningResponse(FALSE, None, None, Some(r.err))
             ELSE r.val

\* faulty: a payload that does not deserialize is answered by a denial verdict
post_oven_admission_denies_unparsed(state, raw) ==
    LET adm == OvenAdmission(raw)
    IN  IF ~adm.ok THEN OvenOpeningResponse(FALSE, None, None, Some(adm.err))
        ELSE IF adm.val.request.status = "Closing" THEN OvenClosingResponse
        ELSE LET r == handle_opening_admission(state, adm.val)
             IN  IF ~r.ok THEN OvenOpeningResponse(FALSE, None, None, Some(r.err))
                 ELSE r.val

\* the route POST /oven/admission: extract Json<OvenAdmission>, then the handler
post_oven_admission(state, raw) ==
    LET adm == OvenAdmission(raw)
    IN  IF ~adm.ok THEN JsonRejection ELSE admission(state, adm.val)

(***************************************************************************)
(* The payloads a caller may send.                                         *)
(***************************************************************************)
GoodClient == Some([address |-> "10.0.0.7", port |-> 51000, user_agent |-> "OBS"])
BadPortClient == Some([address |-> "10.0.0.7", port |-> 70000, user_agent |-> "OBS"])
GoodTime == "2023-05-01T12:00:00Z"

Payload(client, direction, protocol, status, url, new_url, time) ==
    [client |-> client,
     request |-> [direction |-> direction, protocol |-> protocol, status |-> status,
                  url |-> url, new_url |-> new_url, time |-> time]]

\* the payloads that deserialize: every direction and status with every URL
WellFormed ==
    {Payload(GoodClient, d, "RTMP", s, u, None, GoodTime) :
        d \in {"incoming", "outgoing"}, s \in {"opening", "closing"}, u \in Urls}

ScenarioUrl ==
    [scheme |-> "rtmp", segments |-> <<"app", "roomA">>,
     query |-> Some(<<<<"name", "alice">>, <<"key", "k1">>>>)]

\* the scenario URL with a parameter the decision does not know
ExtraFieldUrl ==
    [scheme |-> "rtmp", segments |-> <<"app", "roomA">>,
     query |-> Some(<<<<"name", "alice">>, <<"token", "k2">>, <<"key", "k1">>>>)]

\* the other protocols, a replacement URL, an unknown query parameter
Variants ==
    {Payload(GoodClient, d, p, s, u, n, GoodTime) :
        d \in {"incoming", "outgoing"}, p \in {"WebRTC", "Thumbnail"},
        s \in {"opening", "closing"}, u \in {ScenarioUrl, ExtraFieldUrl},
        n \in {None, Some(ScenarioUrl)}}

\* the payloads that do not deserialize: one defect each
Malformed ==
    UNION {{Payload(None, "incoming", "RTMP", s, ScenarioUrl, None, GoodTime),
            Payload(BadPortClient, "incoming", "RTMP", s, ScenarioUrl, None, GoodTime),
            Payload(GoodClient, "sideways", "RTMP", s, ScenarioUrl, None, GoodTime),
            Payload(GoodClient, "incoming", "rtmp", s, ScenarioUrl, None, GoodTime),
            Payload(GoodClient, "incoming", "RTMP", s, BadUrl, None, GoodTime),
            Payload(GoodClient, "outgoing", "RTMP", s, BadUrl, None, GoodTime),
            Payload(GoodClient, "incoming", "RTMP", s, ScenarioUrl, Some(BadUrl), GoodTime),
            Payload(GoodClient, "incoming", "RTMP", s, ScenarioUrl, None, "yesterday")} :
           s \in {"opening", "closing", "paused"}}

Payloads == WellFormed \cup Variants \cup Malformed

\* a URL of the scenarios: path, streamer name and presented key
Scenario(path, name, key) ==
    [scheme |-> "rtmp", segments |-> path,
     query |-> Some(<<<<"name", name>>, <<"key", key>>>>)]

\* the calls that run concurrently in SpecConc
ConcurrentPayloads ==
    {Payload(GoodClient, "incoming", "RTMP", "opening", ScenarioUrl, None, GoodTime),
     Payload(GoodClient, "incoming", "RTMP", "opening",
             Scenario(<<"app", "roomA">>, "alice", "k%32"), None, GoodTime),
     Payload(GoodClient, "incoming", "RTMP", "opening",
             Scenario(<<"app">>, "alice", "k1"), None, GoodTime),
     Payload(GoodClient, "incoming", "RTMP", "opening",
             Scenario(<<"app", "roomB">>, "alice", "k1"), None, GoodTime),
     Payload(GoodClient, "incoming", "RTMP", "opening",
             Scenario(<<"app", "roomB">>, "bob", "k%32"), None, GoodTime),
     Payload(GoodClient, "outgoing", "WebRTC", "opening", ScenarioUrl, None, GoodTime),
     Payload(GoodClient, "incoming", "RTMP", "closing", ScenarioUrl, None, GoodTime),
     Payload(GoodClient, "incoming", "RTMP", "opening", BadUrl, None, GoodTime)}

ConcurrentConfigs ==
    {[streamers |-> [n \in {"alice"} |-> "k1"],
      allowed_streams |-> [n \in {"alice"} |-> {"roomA"}]],
     [streamers |-> [n \in Names |-> IF n = "alice" THEN "k1" ELSE "k2"],
      allowed_streams |-> [n \in Names |-> IF n = "alice" THEN {"roomA"} ELSE {"roomB"}]],
     [streamers |-> [n \in {"alice"} |-> "k1"],
      allowed_streams |-> [n \in {} |-> {}]],
     [streamers |-> [n \in {} |-> "k1"], allowed_streams |-> [n \in {} |-> {}]]}

\* one call at a time is given every payload; concurrent calls the scenarios
Requests(clients) == IF Cardinality(clients) = 1 THEN Payloads ELSE ConcurrentPayloads

(***************************************************************************)
(* The state machine.  config is the table built in main and shared        *)
(* read-only; each client i is one call of the webhook: pc[i] is where the *)
(* call is, payload[i] its body, resp[i] its response.                     *)
(***************************************************************************)
Clients == DOMAIN pc

\* main with one call at a time: any table
Init ==
    /\ config \in OvenCtrlConfig
    /\ pc = [i \in {1} |-> "idle"]
    /\ payload = [i \in {1} |-> None]
    /\ resp = [i \in {1} |-> None]

\* main with MaxClients calls in flight
InitConc ==
    /\ config \in ConcurrentConfigs
    /\ pc = [i \in 1..MaxClients |-> "idle"]
    /\ payload = [i \in 1..MaxClients |-> None]
    /\ resp = [i \in 1..MaxClients |-> None]

\* the media server posts a payload
Receive(i) ==
    /\ pc[i] = "idle"
    /\ \E p \in Requests(Clients) : payload' = [payload EXCEPT ![i] = Some(p)]
    /\ pc' = [pc EXCEPT ![i] = "received"]
    /\ UNCHANGED <<config, resp>>

\* faulty: a denied call revokes the streamer it names, so a call changes the
\* table the other calls read
AdmissionRevokes(i) ==
    /\ pc[i] = "received"
    /\ resp' = [resp EXCEPT ![i] = Some(post_oven_admission(config, payload[i][1]))]
    /\ pc' = [pc EXCEPT ![i] = "done"]
    /\ LET r == post_oven_admission(config, payload[i][1])
           url == payload[i][1].request.url
       IN  IF r.shape = "opening" /\ ~r.allowed
              /\ url.query # None /\ IngestQuery(url.query[1]).ok
           THEN config' =
                  [config EXCEPT !.streamers =
                     [n \in DOMAIN config.streamers \ {IngestQuery(url.query[1]).val.name}
                        |-> config.streamers[n]]]
           ELSE config' = config
    /\ UNCHANGED payload

\* the route runs: extractor and handler, with no suspension point between
Admission(i) ==
    /\ pc[i] = "received"
    /\ resp' = [resp EXCEPT ![i] = Some(post_oven_admission(config, payload[i][1]))]
    /\ pc' = [pc EXCEPT ![i] = "done"]
    /\ UNCHANGED <<config, payload>>

\* the response is written and the call ends
Respond(i) ==
    /\ pc[i] = "done"
    /\ pc' = [pc EXCEPT ![i] = "idle"]
    /\ payload' = [payload EXCEPT ![i] = None]
    /\ resp' = [resp EXCEPT ![i] = None]
    /\ UNCHANGED config

Next ==
    \/ \E i \in Clients : Receive(i)
    \/ \E i \in Clients : Admission(i)
    \/ \E i \in Clients : Respond(i)

Spec == Init /\ [][Next]_vars

SpecConc == InitConc /\ [][Next]_vars

(***************************************************************************)
(* Vocabulary of the properties.                                           *)
(***************************************************************************)
Done(i) == pc[i] = "done"
Raw(i) == payload[i][1]
Response(i) == resp[i][1]
Parsed(i) == OvenAdmission(Raw(i)).ok
Request(i) == OvenAdmission(Raw(i)).val.request

\* a call that deserialized, asked to open, in the given direction, and was answered
Opening(i, direction) ==
    /\ Done(i)
    /\ Parsed(i)
    /\ Request(i).status = "Opening"
    /\ Request(i).direction = direction

Allowed(r) == r.shape = "opening" /\ r.allowed
Denied(r) == r.shape = "opening" /\ ~r.allowed

\* (a) the URL has a query that decodes to a name and a key
HasCredentials(url) == url.query # None /\ IngestQuery(url.query[1]).ok
Credentials(url) == IngestQuery(url.query[1]).val

\* (b) the name is in the streamers table and the key is its secret
KeyMatches(table, c) ==
    c.name \in DOMAIN table.streamers /\ table.streamers[c.name] = c.key

\* the room a streamer is granted
Granted(table, name, room) ==
    name \in DOMAIN table.allowed_streams /\ room \in table.allowed_streams[name]

\* (c) the path has a segment of index 1 and it is granted to the name
RoomGranted(table, url, name) ==
    Len(url.segments) >= 2 /\ Granted(table, name, url.segments[2])

Authorized(table, url) ==
    /\ HasCredentials(url)
    /\ KeyMatches(table, Credentials(url))
    /\ RoomGranted(table, url, Credentials(url).name)

\* C1: an incoming opening request is allowed if and only if its query decodes
\* to a name and a key, the key is the secret of the name, and the second path
\* segment is a room granted to the name; otherwise it is denied
C1_AllowedIffAuthorized ==
    \A i \in Clients :
        Opening(i, "Incoming") =>
            /\ Response(i).shape = "opening"
            /\ Response(i).allowed = Authorized(config, Request(i).url)

C1_Witness ==
    \E i \in Clients :
        /\ Opening(i, "Incoming")
        /\ Allowed(Response(i))
        /\ Authorized(config, Request(i).url)

\* every field of the payload but the URL deserializes
OnlyUrlInDoubt(raw) ==
    /\ OvenClient(raw.client).ok
    /\ OvenDirection(raw.request.direction).ok
    /\ OvenProtocol(raw.request.protocol).ok
    /\ OptionUrl(raw.request.new_url).ok
    /\ OffsetDateTime(raw.request.time).ok

C3_OutgoingAllowed ==
    \A i \in Clients :
        Opening(i, "Outgoing") =>
            Response(i) = OvenOpeningResponse(TRUE, None, None, None)

C3_Witness ==
    \E i \in Clients :
        /\ Opening(i, "Outgoing")
        /\ DOMAIN config.streamers = {}
        /\ Request(i).url.query = None
        /\ Allowed(Response(i))

\* C4: a streamer's key opens only that streamer's rooms: with name A and A's
\* key, a room granted to B and not to A is denied; with name B and A's key, the
\* request is allowed only if A's key is B's secret; an allowed room is one
\* granted to the presented name
C4_ScopedPerStreamer ==
    \A i \in Clients :
        Opening(i, "Incoming") /\ HasCredentials(Request(i).url) =>
            LET url == Request(i).url
                c == Credentials(url)
                S == config.streamers
            IN  /\ \A A \in DOMAIN S : \A B \in DOMAIN S \ {A} :
                     /\ ( /\ c.name = A
                          /\ c.key = S[A]
                          /\ Len(url.segments) >= 2
                          /\ Granted(config, B, url.segments[2])
                          /\ ~Granted(config, A, url.segments[2]) )
                        => ~Response(i).allowed
                     /\ (c.name = B /\ c.key = S[A] /\ Response(i).allowed)
                        => S[A] = S[B]
                /\ Response(i).allowed => RoomGranted(config, url, c.name)

C4_Witness ==
    \E i \in Clients :
        /\ Opening(i, "Incoming")
        /\ HasCredentials(Request(i).url)
        /\ KeyMatches(config, Credentials(Request(i).url))
        /\ Len(Request(i).url.segments) >= 2
        /\ \E B \in DOMAIN config.streamers \ {Credentials(Request(i).url).name} :
              Granted(config, B, Request(i).url.segments[2])
        /\ ~Granted(config, Credentials(Request(i).url).name, Request(i).url.segments[2])
        /\ Denied(Response(i))

Revoke(table, s) ==
    [table EXCEPT !.streamers =
        [n \in DOMAIN table.streamers \ {s} |-> table.streamers[n]]]

\* C6: removing a streamer from the secrets never turns a denial into an
\* allow: a request allowed with the streamer removed is allowed with it
C6_RevocationMonotonic ==
    \A i \in Clients :
        Done(i) =>
            \A s \in DOMAIN config.streamers :
                Allowed(post_oven_admission(Revoke(config, s), Raw(i)))
                    => Allowed(Response(i))

C6_Witness ==
    \E i \in Clients :
        /\ Done(i)
        /\ Allowed(Response(i))
        /\ Raw(i).request.direction = "incoming"
        /\ \E s \in DOMAIN config.streamers :
              Denied(post_oven_admission(Revoke(config, s), Raw(i)))

\* every answered call holds the answer of the route run alone on its payload
\* and the table, and equal payloads hold equal answers
AnswersAsAlone ==
    \A i \in Clients :
        Done(i) =>
            /\ resp[i] = Some(post_oven_admission(config, Raw(i)))
            /\ \A j \in Clients :
                  Done(j) /\ payload[j] = payload[i] => resp[j] = resp[i]

C8_VerdictShape ==
    \A i \in Clients :
        Done(i) /\ Parsed(i) /\ Request(i).status = "Opening" =>
            /\ Response(i).shape = "opening"
            /\ (Response(i).reason # None) = ~Response(i).allowed
            /\ Response(i).new_url = None
            /\ Response(i).lifetime = None
            /\ (Request(i).direction = "Incoming" /\ ~Authorized(config, Request(i).url))
                  => ~Response(i).allowed /\ Response(i).reason # None

C8_Witness ==
    \E i \in Clients :
        /\ Opening(i, "Incoming")
        /\ Request(i).new_url # None
        /\ Denied(Response(i))
        /\ Response(i).reason # None

NoGrantsReason(name) == <<"streamer '", name, "' does not have access to any rooms">>
NotGrantedReason(name, room) == <<"streamer ", name, " does not have access to room ", room>>

\* the message of the first check that fails, in the order a to g
FirstFailure(table, url) ==
    IF url.query = None THEN <<"no query parameters present">>
    ELSE IF ~IngestQuery(url.query[1]).ok THEN IngestQuery(url.query[1]).err
    ELSE LET c == Credentials(url) IN
         IF c.name \notin DOMAIN table.streamers THEN <<"unknown streamer: ", c.name>>
         ELSE IF table.streamers[c.name] # c.key THEN <<"invalid key for streamer ", c.name>>
         ELSE IF Len(url.segments) = 0 THEN <<"url has no segments">>
         ELSE IF Len(url.segments) < 2 THEN <<"url is laking a second segment">>
         ELSE IF c.name \notin DOMAIN table.allowed_streams THEN NoGrantsReason(c.name)
         ELSE NotGrantedReason(c.name, url.segments[2])

\* C9: a denied incoming opening request carries the reason of the first
\* failing check in the order query present, query decodes, name known, key
\* matches, second segment present, name has grants, room granted
C9_FirstFailureReason ==
    \A i \in Clients :
        Opening(i, "Incoming") /\ ~Authorized(config, Request(i).url) =>
            Response(i).reason = Some(FirstFailure(config, Request(i).url))

C9_Witness ==
    \E i \in Clients :
        /\ Opening(i, "Incoming")
        /\ HasCredentials(Request(i).url)
        /\ Credentials(Request(i).url).name \in DOMAIN config.streamers
        /\ ~KeyMatches(config, Credentials(Request(i).url))
        /\ Len(Request(i).url.segments) = 1
        /\ Response(i).reason =
              Some(<<"invalid key for streamer ", Credentials(Request(i).url).name>>)

\* a request that passes the checks a to e
PassesAtoE(table, url) ==
    /\ HasCredentials(url)
    /\ KeyMatches(table, Credentials(url))
    /\ Len(url.segments) >= 2

\* C10 as stated: past the checks a to e, a streamer whose grant entry is
\* absent or empty is denied with the no-room-grants reason, and the
\* room-not-granted reason is given only for a non-empty entry without the room
C10_EmptyOrAbsentIsNoGrants ==
    \A i \in Clients :
        Opening(i, "Incoming") /\ PassesAtoE(config, Request(i).url) =>
            LET name == Credentials(Request(i).url).name
                room == Request(i).url.segments[2]
                G == config.allowed_streams
            IN  /\ (name \notin DOMAIN G \/ G[name] = {})
                      => Response(i).reason = Some(NoGrantsReason(name))
                /\ Response(i).reason = Some(NotGrantedReason(name, room))
                      => name \in DOMAIN G /\ G[name] # {} /\ room \notin G[name]

\* C10 amended: past the checks a to e, a streamer with no grant entry is
\* denied with the no-room-grants reason, and a streamer whose entry is present,
\* empty or not, and lacks the room with the room-not-granted reason
C10_AbsentIsNoGrants ==
    \A i \in Clients :
        Opening(i, "Incoming") /\ PassesAtoE(config, Request(i).url) =>
            LET name == Credentials(Request(i).url).name
                room == Request(i).url.segments[2]
                G == config.allowed_streams
            IN  /\ name \notin DOMAIN G
                      => Response(i).reason = Some(NoGrantsReason(name))
                /\ (name \in DOMAIN G /\ room \notin G[name])
                      => Response(i).reason = Some(NotGrantedReason(name, room))
                /\ Response(i).reason = Some(NotGrantedReason(name, room))
                      => name \in DOMAIN G /\ room \notin G[name]

C10_Witness ==
    \E i \in Clients :
        /\ Opening(i, "Incoming")
        /\ PassesAtoE(config, Request(i).url)
        /\ Credentials(Request(i).url).name \in DOMAIN config.allowed_streams
        /\ config.allowed_streams[Credentials(Request(i).url).name] = {}
        /\ Response(i).reason =
              Some(NotGrantedReason(Credentials(Request(i).url).name,
                                    Request(i).url.segments[2]))

====
